---- MODULE Spec2Model ----
(***************************************************************************)
(* Model of ext/rubygame/rubygame_transform.c: Surface#flip (the pixel     *)
(* kernel, stepped row by row, with the destination's lock), and the      *)
(* argument dispatch of Surface#rotozoom, Surface#zoom,                   *)
(* Surface.rotozoom_size and Surface.zoom_size in front of SDL_gfx.       *)
(*                                                                         *)
(* Ruby VALUEs are records [t, a, b]: t is the Ruby type tag, a and b the  *)
(* number (a) or the two elements of an Array (a, b).  Numbers are        *)
(* integers; a Float is an integer-valued number tagged T_FLOAT.          *)
(* SDL and SDL_gfx are outside the repository: a backend call is recorded *)
(* with the arguments it is handed, and the size it computes is the       *)
(* uninterpreted term of those arguments.                                  *)
(***************************************************************************)
EXTENDS Integers, Sequences, FiniteSets, TLC

\* ------------------------------------------------------------------ bounds
MaxW == 3
MaxH == 2
MaxPad == 1
MaxPat == 2
MaxCalls == 2

\* Surface depths tried: the four supported ones, and 0 and 8 (rejected).
Depths == {0, 1, 2, 3, 4, 8}

\* ------------------------------------------------------------ Ruby VALUEs
Qfalse == [t |-> "T_FALSE", a |-> 0, b |-> 0]
Qtrue == [t |-> "T_TRUE", a |-> 0, b |-> 0]
Qnil == [t |-> "T_NIL", a |-> 0, b |-> 0]
Fix(n) == [t |-> "T_FIXNUM", a |-> n, b |-> 0]
Flt(n) == [t |-> "T_FLOAT", a |-> n, b |-> 0]
Ary(x, y) == [t |-> "T_ARRAY", a |-> x, b |-> y]
Str == [t |-> "T_STRING", a |-> 0, b |-> 0]

TYPE(v) == v.t
FIXNUM_P(v) == v.t = "T_FIXNUM"

\* NUM2DBL / NUM2INT convert a Fixnum or a Float and raise TypeError otherwise.
IsNum(v) == v.t \in {"T_FIXNUM", "T_FLOAT"}
NUM2DBL(v) == v.a

\* rb_ary_entry(ary, i) of a two-element Array, i in {0, 1}.
rb_ary_entry(v, i) == IF i = 0 THEN v.a ELSE v.b

\* The C int a raw VALUE is when it is assigned without conversion
\* (smooth = argv[2], xaxis = argv[0]): Qfalse is 0, Qtrue 2, Qnil 4,
\* a Fixnum n is 2n+1.
RawVALUE(v) ==
  CASE v.t = "T_FALSE" -> 0
    [] v.t = "T_TRUE" -> 2
    [] v.t = "T_NIL" -> 4
    [] v.t = "T_FIXNUM" -> 2 * v.a + 1

\* ---------------------------------------------------------------- surfaces
\* The bytes of a source buffer: pattern p puts p*(i+1) at offset i, so
\* all bytes of one buffer differ and none is 0 (a fresh destination is 0).
PatternByte(p, i) == (p * (i + 1)) % 256

MakeSurface(w, h, bpp, pitch, p) ==
  [w |-> w, h |-> h, BytesPerPixel |-> bpp, pitch |-> pitch, locked |-> 0,
   pixels |-> [i \in 0..(pitch * h - 1) |-> PatternByte(p, i)]]

Sources ==
  { MakeSurface(w, h, bpp, w * bpp + pad, p) :
      w \in 1..MaxW, h \in 1..MaxH, bpp \in Depths, pad \in 0..MaxPad,
      p \in 1..MaxPat }

VARIABLES
  HAVE_SDL_ROTOZOOM_H,  \* the build has SDL_gfx's SDL_rotozoom.h
  HAVE_ROTOZOOMXY,  \* the build's SDL_gfx has rotozoomSurfaceXY (>= 2.0.13)
  heap,             \* the SDL_Surfaces alive, by id 1..Len(heap)
  surf,             \* id of self, the source of the call
  newsurf,          \* id of flip's destination, 0 for NULL
  entry,            \* the entry point called
  argv,             \* its arguments
  pc,               \* position of the call
  loopy,            \* flip's row counter
  lockret,          \* what SDL_LockSurface returned (flip discards it)
  outcome,          \* what the call returned or raised
  backend,          \* the SDL_gfx calls of this request, in order
  reads,            \* source byte offsets flip has read in this call
  writes,           \* destination byte offsets flip has written, in order
  ncalls            \* flip calls made so far

\* The build's flags, fixed at compile time.
build == <<HAVE_SDL_ROTOZOOM_H, HAVE_ROTOZOOMXY>>

vars == <<HAVE_SDL_ROTOZOOM_H, HAVE_ROTOZOOMXY, heap, surf, newsurf, entry,
          argv, pc, loopy, lockret, outcome, backend, reads, writes, ncalls>>

\* ---------------------------------------------------------------- outcomes
NoSize == [fn |-> "none", w |-> 0, h |-> 0, angle |-> 0, zx |-> 0, zy |-> 0]
SizeTerm(fn, w, h, angle, zx, zy) ==
  [fn |-> fn, w |-> w, h |-> h, angle |-> angle, zx |-> zx, zy |-> zy]

NoOutcome == [kind |-> "none", err |-> "none", id |-> 0, dims |-> NoSize]
Raise(e) == [kind |-> "raise", err |-> e, id |-> 0, dims |-> NoSize]
Crash == [kind |-> "crash", err |-> "none", id |-> 0, dims |-> NoSize]
RetNil == [kind |-> "nil", err |-> "none", id |-> 0, dims |-> NoSize]
RetSurface(id, dims) == [kind |-> "surface", err |-> "none", id |-> id, dims |-> dims]
RetSize(dims) == [kind |-> "size", err |-> "none", id |-> 0, dims |-> dims]

BackendCall(fn, w, h, angle, zx, zy, smooth) ==
  [fn |-> fn, w |-> w, h |-> h, angle |-> angle, zx |-> zx, zy |-> zy,
   smooth |-> smooth]

\* Rubygame_Init_Transform: the methods the build defines on Surface.
\* flip is always defined; the four SDL_gfx ones are compiled and
\* registered only under HAVE_SDL_ROTOZOOM_H.
Methods ==
  {"flip"} \cup (IF HAVE_SDL_ROTOZOOM_H
                 THEN {"rotozoom", "zoom", "rotozoom_size", "zoom_size"}
                 ELSE {})

Init ==
  /\ HAVE_SDL_ROTOZOOM_H \in BOOLEAN
  /\ HAVE_ROTOZOOMXY \in BOOLEAN
  /\ \E s \in Sources : heap = <<s>>
  /\ surf = 1
  /\ newsurf = 0
  /\ entry = "none"
  /\ argv = <<>>
  /\ pc = "idle"
  /\ loopy = 0
  /\ lockret = 0
  /\ outcome = NoOutcome
  /\ backend = <<>>
  /\ reads = {}
  /\ writes = <<>>
  /\ ncalls = 0

\* -------------------------------------------------------------------- flip
\* Mutant of newsurf_fromsurf: the depth is checked against bits (32)
\* instead of bytes (4).
newsurf_fromsurf_BitsForBytes(hp, s, width, height, allocok, pitch) ==
  IF hp[s].BytesPerPixel <= 0 \/ hp[s].BytesPerPixel > 32
  THEN [err |-> "UnsupportedDepth", heap |-> hp, newsurf |-> 0]
  ELSE IF ~allocok
  THEN [err |-> "AllocationFailed", heap |-> hp, newsurf |-> 0]
  ELSE [err |-> "none",
        heap |-> Append(hp,
                   [w |-> width, h |-> height,
                    BytesPerPixel |-> hp[s].BytesPerPixel,
                    pitch |-> pitch, locked |-> 0,
                    pixels |-> [i \in 0..(pitch * height - 1) |-> 0]]),
        newsurf |-> Len(hp) + 1]

\* Mutant of newsurf_fromsurf: the source itself is returned (return surf)
\* and flip works in place.
newsurf_fromsurf_ReturnsSource(hp, s, width, height, allocok, pitch) ==
  IF hp[s].BytesPerPixel <= 0 \/ hp[s].BytesPerPixel > 4
  THEN [err |-> "UnsupportedDepth", heap |-> hp, newsurf |-> 0]
  ELSE IF ~allocok
  THEN [err |-> "AllocationFailed", heap |-> hp, newsurf |-> 0]
  ELSE [err |-> "none", heap |-> hp, newsurf |-> s]

\* newsurf_fromsurf: the depth check, then SDL_CreateRGBSurface, which
\* returns NULL (allocok false) or a zeroed, unlocked surface of the
\* source's depth whose pitch the allocator chose.  The result is the
\* error raised ("none" if none), the heap and the new surface's id.
\* (Palette and colour key are not modelled.)
newsurf_fromsurf(hp, s, width, height, allocok, pitch) ==
  IF hp[s].BytesPerPixel <= 0 \/ hp[s].BytesPerPixel > 4
  THEN [err |-> "UnsupportedDepth", heap |-> hp, newsurf |-> 0]
  ELSE IF ~allocok
  THEN [err |-> "AllocationFailed", heap |-> hp, newsurf |-> 0]
  ELSE [err |-> "none",
        heap |-> Append(hp,
                   [w |-> width, h |-> height,
                    BytesPerPixel |-> hp[s].BytesPerPixel,
                    pitch |-> pitch, locked |-> 0,
                    pixels |-> [i \in 0..(pitch * height - 1) |-> 0]]),
        newsurf |-> Len(hp) + 1]

\* SDL_LockSurface(newsurf): on success the lock count goes up and 0 is
\* returned; on failure (-1) the surface is left unlocked.
SDL_LockSurface(hp, id, ok) ==
  IF ok THEN [hp EXCEPT ![id].locked = @ + 1] ELSE hp

\* SDL_UnlockSurface(newsurf): a no-op on a surface that is not locked.
SDL_UnlockSurface(hp, id) ==
  IF hp[id].locked = 0 THEN hp ELSE [hp EXCEPT ![id].locked = @ - 1]

\* Mutant of SrcRow: the vertical flip forgets to subtract loopy.
SrcRow_LastRowOnly(s, yaxis, y) == IF yaxis # 0 THEN s.h - 1 ELSE y

\* The source row that destination row y (loopy) is copied from.
SrcRow(s, yaxis, y) == IF yaxis # 0 THEN s.h - 1 - y ELSE y

\* Mutant of LastPixelOffset: w - 1 is not scaled by the pixel size.
LastPixelOffset_Unscaled(s) == s.w - 1

\* Byte offset, within its row, of the source pixel the reverse copy of a
\* row starts at: (Uint16*)row + w - 1, row + w*3 - 3, ...
LastPixelOffset(s) == (s.w - 1) * s.BytesPerPixel

\* Mutant of RowCopies: memcpy copies srcpitch bytes, the padding included.
RowCopies_WholePitch(s, dstpitch, xaxis, yaxis, y) ==
  LET pixsize == s.BytesPerPixel
      srcpitch == s.pitch
      srow == SrcRow(s, yaxis, y) * srcpitch
      drow == y * dstpitch
  IN IF xaxis = 0
     THEN [i \in 1..srcpitch |-> <<drow + (i - 1), srow + (i - 1)>>]
     ELSE IF pixsize \in {1, 2, 3, 4}
     THEN [i \in 1..(s.w * pixsize) |->
             LET loopx == (i - 1) \div pixsize
                 k == (i - 1) % pixsize
             IN <<drow + loopx * pixsize + k,
                  srow + LastPixelOffset(s) - loopx * pixsize + k>>]
     ELSE <<>>

\* One iteration of the loopy loop, as the byte copies it makes in order:
\* <<destination offset, source offset>>.  Without xaxis the row is one
\* memcpy of w*BytesPerPixel bytes; with xaxis it is copied pixel by pixel,
\* the destination going forward and the source backward, each pixel's
\* bytes in memory order.  The switch has no case for another depth.
RowCopies(s, dstpitch, xaxis, yaxis, y) ==
  LET pixsize == s.BytesPerPixel
      srcpitch == s.pitch
      srow == SrcRow(s, yaxis, y) * srcpitch
      drow == y * dstpitch
  IN IF xaxis = 0
     THEN [i \in 1..(s.w * pixsize) |-> <<drow + (i - 1), srow + (i - 1)>>]
     ELSE IF pixsize \in {1, 2, 3, 4}
     THEN [i \in 1..(s.w * pixsize) |->
             LET loopx == (i - 1) \div pixsize
                 k == (i - 1) % pixsize
             IN <<drow + loopx * pixsize + k,
                  srow + LastPixelOffset(s) - loopx * pixsize + k>>]
     ELSE <<>>

\* A byte read; the value read outside the buffer is not defined by the
\* language, and flip never reads there (see the bounds property).
ReadByte(pix, o) == IF o \in DOMAIN pix THEN pix[o] ELSE 0

RECURSIVE ApplyCopies(_, _, _, _, _)
ApplyCopies(hp, s, d, copies, i) ==
  IF i > Len(copies) THEN hp
  ELSE LET to == copies[i][1]
           b == ReadByte(hp[s].pixels, copies[i][2])
           hp2 == IF to \in DOMAIN hp[d].pixels
                  THEN [hp EXCEPT ![d].pixels[to] = b]
                  ELSE hp
       IN ApplyCopies(hp2, s, d, copies, i + 1)

Flags == {Qfalse, Qtrue, Qnil}
FlipArgs == {<<x>> : x \in Flags} \cup {<<x, y>> : x \in Flags, y \in Flags}

\* rbgm_transform_flip up to the lock: the argument count, then the
\* destination from newsurf_fromsurf.
FlipEnter(self, args, allocok, pad) ==
  /\ entry' = "flip"
  /\ argv' = args
  /\ surf' = self
  /\ ncalls' = ncalls + 1
  /\ reads' = {}
  /\ writes' = <<>>
  /\ backend' = <<>>
  /\ loopy' = 0
  /\ lockret' = 0
  /\ IF Len(args) < 2
     THEN /\ pc' = "raised"
          /\ outcome' = Raise("InvalidArgument")
          /\ newsurf' = 0
          /\ heap' = heap
     ELSE LET s == heap[self]
              r == newsurf_fromsurf(heap, self, s.w, s.h, allocok,
                                    s.w * s.BytesPerPixel + pad)
          IN /\ heap' = r.heap
             /\ newsurf' = r.newsurf
             /\ IF r.err # "none"
                THEN pc' = "raised" /\ outcome' = Raise(r.err)
                ELSE pc' = "flip_lock" /\ outcome' = NoOutcome
  /\ UNCHANGED build

\* The caller calls flip on the surface it holds.
FlipCall ==
  /\ "flip" \in Methods
  /\ pc = "idle"
  /\ \E args \in FlipArgs, allocok \in BOOLEAN, pad \in 0..MaxPad :
       FlipEnter(surf, args, allocok, pad)

\* The caller flips the surface flip returned, with the same flags.
Reflip ==
  /\ "flip" \in Methods
  /\ pc = "done"
  /\ entry = "flip"
  /\ outcome.kind = "surface"
  /\ ncalls < MaxCalls
  /\ \E allocok \in BOOLEAN, pad \in 0..MaxPad :
       FlipEnter(outcome.id, argv, allocok, pad)

\* SDL_LockSurface(newsurf); its result is not looked at.
FlipLock ==
  /\ pc = "flip_lock"
  /\ \E ok \in BOOLEAN :
       /\ heap' = SDL_LockSurface(heap, newsurf, ok)
       /\ lockret' = IF ok THEN 0 ELSE -1
  /\ pc' = "flip_copy"
  /\ loopy' = 0
  /\ UNCHANGED <<build, surf, newsurf, entry, argv, outcome,
                 backend, reads, writes, ncalls>>

\* One row of the copy loops.
FlipCopyRow ==
  /\ pc = "flip_copy"
  /\ loopy < heap[surf].h
  /\ LET copies == RowCopies(heap[surf], heap[newsurf].pitch,
                             RawVALUE(argv[1]), RawVALUE(argv[2]), loopy)
     IN /\ heap' = ApplyCopies(heap, surf, newsurf, copies, 1)
        /\ reads' = reads \cup {copies[i][2] : i \in 1..Len(copies)}
        /\ writes' = writes \o [i \in 1..Len(copies) |-> copies[i][1]]
  /\ loopy' = loopy + 1
  /\ UNCHANGED <<build, surf, newsurf, entry, argv, pc, lockret,
                 outcome, backend, ncalls>>

\* SDL_UnlockSurface(newsurf) after the last row.
FlipUnlock ==
  /\ pc = "flip_copy"
  /\ loopy >= heap[surf].h
  /\ heap' = SDL_UnlockSurface(heap, newsurf)
  /\ pc' = "flip_ret"
  /\ UNCHANGED <<build, surf, newsurf, entry, argv, loopy, lockret,
                 outcome, backend, reads, writes, ncalls>>

\* The new surface is wrapped and returned (newsurf is not NULL here).
FlipReturn ==
  /\ pc = "flip_ret"
  /\ IF newsurf = 0
     THEN pc' = "raised" /\ outcome' = Raise("BackendFailure")
     ELSE pc' = "done" /\ outcome' = RetSurface(newsurf, NoSize)
  /\ UNCHANGED <<build, heap, surf, newsurf, entry, argv, loopy,
                 lockret, backend, reads, writes, ncalls>>

\* ---------------------------------------------------------------- dispatch
\* What an entry point did: its outcome and the SDL_gfx calls it made.
Ret(o, c) == [out |-> o, calls |-> c]

\* Mutant of NegativeZoomUnsupported: #ifdef where the code has #ifndef.
NegativeZoomUnsupported_Ifdef(zoomx) == HAVE_ROTOZOOMXY /\ zoomx < 0

\* rotozoom's check of a single zoom factor, compiled in when SDL_gfx has
\* no rotozoomSurfaceXY: a negative factor is not supported.
NegativeZoomUnsupported(zoomx) == ~HAVE_ROTOZOOMXY /\ zoomx < 0

\* rbgm_transform_rotozoom(argc, argv, self); ok: SDL_gfx returned a
\* surface.  A surface SDL_gfx returns has the dimensions its own size
\* function gives for the arguments it was handed.
rbgm_transform_rotozoom(src, args, ok) ==
  IF Len(args) < 3 THEN Ret(Raise("InvalidArgument"), <<>>)
  ELSE IF ~IsNum(args[1]) THEN Ret(Raise("InvalidArgument"), <<>>)
  ELSE
    LET angle == NUM2DBL(args[1])
        smooth == RawVALUE(args[3])
    IN IF TYPE(args[2]) = "T_ARRAY"
       THEN IF HAVE_ROTOZOOMXY
            THEN LET zoomx == NUM2DBL(Fix(rb_ary_entry(args[2], 0)))
                     zoomy == NUM2DBL(Fix(rb_ary_entry(args[2], 1)))
                 IN Ret(IF ok
                        THEN RetSurface(0, SizeTerm("rotozoomSurfaceSizeXY",
                                          src.w, src.h, angle, zoomx, zoomy))
                        ELSE Raise("BackendFailure"),
                        <<BackendCall("rotozoomSurfaceXY", src.w, src.h,
                                      angle, zoomx, zoomy, smooth)>>)
            ELSE Ret(Raise("CapabilityMissing"), <<>>)
       ELSE IF FIXNUM_P(args[2]) \/ TYPE(args[2]) = "T_FLOAT"
       THEN LET zoomx == NUM2DBL(args[2])
            IN IF NegativeZoomUnsupported(zoomx)
               THEN Ret(Raise("CapabilityMissing"), <<>>)
               ELSE Ret(IF ok
                        THEN RetSurface(0, SizeTerm("rotozoomSurfaceSize",
                                          src.w, src.h, angle, zoomx, zoomx))
                        ELSE Raise("BackendFailure"),
                        <<BackendCall("rotozoomSurface", src.w, src.h,
                                      angle, zoomx, zoomx, smooth)>>)
       ELSE Ret(Raise("InvalidArgument"), <<>>)

\* What rb_ary_entry does when handed a number instead of an Array (its
\* argument is read as a struct RArray): the process crashes, or garbage is
\* read that NUM2DBL rejects (TypeError) or converts to some numbers a, b.
GarbageNums == {-1, 2}
UBReads ==
  {[kind |-> k, a |-> 0, b |-> 0] : k \in {"crash", "raise"}}
    \cup {[kind |-> "value", a |-> x, b |-> y] :
            x \in GarbageNums, y \in GarbageNums}

\* rbgm_transform_rzsize(argc, argv, module), argv[0] an Array of two
\* Integers; ub: what the misdirected rb_ary_entry(argv[1], ...) produced.
rbgm_transform_rzsize(args, ub) ==
  IF Len(args) < 3 THEN Ret(Raise("InvalidArgument"), <<>>)
  ELSE IF ~IsNum(args[2]) THEN Ret(Raise("InvalidArgument"), <<>>)
  ELSE
    LET w == rb_ary_entry(args[1], 0)
        h == rb_ary_entry(args[1], 0)
        angle == NUM2DBL(args[2])
    IN IF TYPE(args[3]) = "T_ARRAY"
       THEN IF HAVE_ROTOZOOMXY
            THEN IF ub.kind = "crash" THEN Ret(Crash, <<>>)
                 ELSE IF ub.kind = "raise"
                 THEN Ret(Raise("InvalidArgument"), <<>>)
                 ELSE Ret(RetSize(SizeTerm("rotozoomSurfaceSizeXY",
                                           w, h, angle, ub.a, ub.b)),
                          <<BackendCall("rotozoomSurfaceSizeXY", w, h,
                                        angle, ub.a, ub.b, 0)>>)
            ELSE Ret(RetNil, <<>>)
       ELSE IF FIXNUM_P(args[2]) \/ TYPE(args[2]) = "T_FLOAT"
       THEN LET zoomx == NUM2DBL(args[2])
            IN IF ~HAVE_ROTOZOOMXY /\ zoomx < 0
               THEN Ret(RetNil, <<>>)
               ELSE Ret(RetSize(SizeTerm("rotozoomSurfaceSize",
                                         w, h, angle, zoomx, zoomx)),
                        <<BackendCall("rotozoomSurfaceSize", w, h, angle,
                                      zoomx, zoomx, 0)>>)
       ELSE Ret(Raise("InvalidArgument"), <<>>)

\* The zoom argument as zoomx, zoomy, or "bad" for a wrong type.
ZoomFactors(z) ==
  IF TYPE(z) = "T_ARRAY"
  THEN [bad |-> FALSE, zoomx |-> NUM2DBL(Fix(rb_ary_entry(z, 0))),
        zoomy |-> NUM2DBL(Fix(rb_ary_entry(z, 1)))]
  ELSE IF FIXNUM_P(z) \/ TYPE(z) = "T_FLOAT"
  THEN [bad |-> FALSE, zoomx |-> NUM2DBL(z), zoomy |-> NUM2DBL(z)]
  ELSE [bad |-> TRUE, zoomx |-> 0, zoomy |-> 0]

\* rbgm_transform_zoom(argc, argv, self).
rbgm_transform_zoom(src, args, ok) ==
  IF Len(args) < 2 THEN Ret(Raise("InvalidArgument"), <<>>)
  ELSE
    LET z == ZoomFactors(args[1])
        smooth == RawVALUE(args[2])
    IN IF z.bad THEN Ret(Raise("InvalidArgument"), <<>>)
       ELSE Ret(IF ok
                THEN RetSurface(0, SizeTerm("zoomSurfaceSize", src.w, src.h,
                                            0, z.zoomx, z.zoomy))
                ELSE Raise("BackendFailure"),
                <<BackendCall("zoomSurface", src.w, src.h, 0, z.zoomx,
                              z.zoomy, smooth)>>)

\* rbgm_transform_zoomsize(argc, argv, module), argv[0] an Array of two
\* Integers.
rbgm_transform_zoomsize(args) ==
  IF Len(args) < 3 THEN Ret(Raise("InvalidArgument"), <<>>)
  ELSE
    LET w == rb_ary_entry(args[1], 0)
        h == rb_ary_entry(args[1], 0)
        z == ZoomFactors(args[2])
    IN IF z.bad THEN Ret(Raise("InvalidArgument"), <<>>)
       ELSE Ret(RetSize(SizeTerm("zoomSurfaceSize", w, h, 0,
                                 z.zoomx, z.zoomy)),
                <<BackendCall("zoomSurfaceSize", w, h, 0, z.zoomx,
                              z.zoomy, 0)>>)

\* The arguments tried.
Angles == {Fix(-90), Fix(0), Fix(90), Flt(45), Str}
Zooms == {Fix(-1), Fix(1), Fix(2), Flt(2), Ary(2, 3), Ary(-1, 1), Str}
Smooths == {Qfalse, Qtrue, Qnil}
Sizes == {Ary(w, h) : w \in 1..MaxW, h \in 1..MaxH}

RotozoomArgs ==
  {<<a, z>> : a \in Angles, z \in Zooms}
    \cup {<<a, z, sm>> : a \in Angles, z \in Zooms, sm \in Smooths}
ZoomArgs == {<<z>> : z \in Zooms} \cup {<<z, sm>> : z \in Zooms, sm \in Smooths}
RzsizeArgs ==
  {<<sz, a>> : sz \in Sizes, a \in Angles}
    \cup {<<sz, a, z>> : sz \in Sizes, a \in Angles, z \in Zooms}
ZoomsizeArgs ==
  {<<sz, z>> : sz \in Sizes, z \in Zooms}
    \cup {<<sz, z, x>> : sz \in Sizes, z \in Zooms, x \in Smooths}

\* A call that runs to its end in one step.
Finish(name, args, r) ==
  /\ entry' = name
  /\ argv' = args
  /\ outcome' = r.out
  /\ backend' = r.calls
  /\ pc' = CASE r.out.kind = "raise" -> "raised"
             [] r.out.kind = "crash" -> "crashed"
             [] OTHER -> "done"
  /\ UNCHANGED <<build, heap, surf, newsurf, loopy, lockret, reads,
                 writes, ncalls>>

RotozoomCall ==
  /\ "rotozoom" \in Methods
  /\ pc = "idle"
  /\ \E args \in RotozoomArgs, ok \in BOOLEAN :
       Finish("rotozoom", args, rbgm_transform_rotozoom(heap[surf], args, ok))

RzsizeCall ==
  /\ "rotozoom_size" \in Methods
  /\ pc = "idle"
  /\ \E args \in RzsizeArgs, ub \in UBReads :
       Finish("rotozoom_size", args, rbgm_transform_rzsize(args, ub))

ZoomCall ==
  /\ "zoom" \in Methods
  /\ pc = "idle"
  /\ \E args \in ZoomArgs, ok \in BOOLEAN :
       Finish("zoom", args, rbgm_transform_zoom(heap[surf], args, ok))

ZoomsizeCall ==
  /\ "zoom_size" \in Methods
  /\ pc = "idle"
  /\ \E args \in ZoomsizeArgs :
       Finish("zoom_size", args, rbgm_transform_zoomsize(args))

Next ==
  \/ FlipCall
  \/ Reflip
  \/ FlipLock
  \/ FlipCopyRow
  \/ FlipUnlock
  \/ FlipReturn
  \/ RotozoomCall
  \/ RzsizeCall
  \/ ZoomCall
  \/ ZoomsizeCall

Spec == Init /\ [][Next]_vars

\* ------------------------------------------------------------- properties
Finished == pc \in {"done", "raised", "crashed"}
StrictFlags == argv[1] \in {Qtrue, Qfalse} /\ argv[2] \in {Qtrue, Qfalse}
GoodDepth(s) == s.BytesPerPixel \in {1, 2, 3, 4}
IsZoom(z) == TYPE(z) = "T_ARRAY" \/ IsNum(z)

\* The bytes of the used region of a surface, by row, byte in row.
Used(s) ==
  [y \in 0..(s.h - 1) |->
     [b \in 0..(s.w * s.BytesPerPixel - 1) |-> s.pixels[y * s.pitch + b]]]

\* C1: the surface flip returns has the source's width and height, and its
\* pixel (x, y) is, byte for byte, the source pixel
\* (horizontal ? w-1-x : x, vertical ? h-1-y : y), whatever the two pitches.
C1_FlipPixelMap ==
  (pc = "done" /\ entry = "flip" /\ StrictFlags) =>
    LET s == heap[surf]
        d == heap[outcome.id]
        hz == argv[1] = Qtrue
        vt == argv[2] = Qtrue
        n == s.BytesPerPixel
    IN /\ d.w = s.w
       /\ d.h = s.h
       /\ \A x \in 0..(s.w - 1), y \in 0..(s.h - 1), k \in 0..(n - 1) :
            d.pixels[y * d.pitch + x * n + k]
              = s.pixels[(IF vt THEN s.h - 1 - y ELSE y) * s.pitch
                         + (IF hz THEN s.w - 1 - x ELSE x) * n + k]

\* A 2x2 surface of 3-byte pixels flipped on both axes into a destination
\* of another pitch.
C1_Witness ==
  /\ pc = "done"
  /\ entry = "flip"
  /\ argv = <<Qtrue, Qtrue>>
  /\ heap[surf].w = 2
  /\ heap[surf].h = 2
  /\ heap[surf].BytesPerPixel = 3
  /\ heap[outcome.id].pitch # heap[surf].pitch

\* C2: flipping the surface flip returned, with the same flags, gives back
\* the used region of the surface the first flip was given, whatever the
\* pitch of the surface in between.
C2_FlipInvolution ==
  (pc = "done" /\ entry = "flip" /\ ncalls >= 2) =>
    Used(heap[outcome.id]) = Used(heap[surf - 1])

\* A horizontal flip done twice, the surface in between being padded
\* differently from the original.
C2_Witness ==
  /\ pc = "done"
  /\ entry = "flip"
  /\ ncalls = 2
  /\ argv = <<Qtrue, Qfalse>>
  /\ heap[1].w = 2
  /\ heap[1].BytesPerPixel = 2
  /\ heap[2].pitch # heap[1].pitch

\* C3 as stated: flip, zoom and rotozoom, called with acceptable arguments
\* on a source whose depth is not 1..4 bytes, fail with UnsupportedDepth,
\* allocate nothing and do not call SDL_gfx.
C3_Original ==
  (/\ Finished
   /\ entry \in {"flip", "zoom", "rotozoom"}
   /\ ~GoodDepth(heap[surf])
   /\ outcome.err \notin {"InvalidArgument", "CapabilityMissing"}) =>
    /\ outcome = Raise("UnsupportedDepth")
    /\ Len(heap) = 1
    /\ backend = <<>>

\* C3 amended: flip, called with its two flags on a source whose depth is
\* not 1..4 bytes, fails with UnsupportedDepth, allocates no destination,
\* writes nothing and calls no backend; zoom and rotozoom hand a source of
\* any depth to SDL_gfx.
C3_FlipDepthRejection ==
  /\ (Finished /\ entry = "flip" /\ Len(argv) >= 2 /\ ~GoodDepth(heap[surf])) =>
       /\ outcome = Raise("UnsupportedDepth")
       /\ newsurf = 0
       /\ Len(heap) = 1
       /\ writes = <<>>
       /\ backend = <<>>
  /\ (/\ Finished
      /\ entry \in {"zoom", "rotozoom"}
      /\ outcome.err \notin {"InvalidArgument", "CapabilityMissing"}) =>
       Len(backend) = 1

\* flip has rejected a source of 8 bytes per pixel.
C3_Witness ==
  /\ pc = "raised"
  /\ entry = "flip"
  /\ Len(argv) = 2
  /\ heap[surf].BytesPerPixel = 8
  /\ outcome.err = "UnsupportedDepth"

\* A request with every argument given, a numeric angle and a zoom that
\* is a pair or a number.
FullRequest ==
  \/ entry = "rotozoom" /\ Len(argv) = 3 /\ IsNum(argv[1]) /\ IsZoom(argv[2])
  \/ entry = "zoom" /\ Len(argv) = 2 /\ IsZoom(argv[1])
ZoomArg == IF entry = "rotozoom" THEN argv[2] ELSE argv[1]
Gated ==
  ~HAVE_ROTOZOOMXY /\ (TYPE(ZoomArg) = "T_ARRAY" \/ NUM2DBL(ZoomArg) < 0)
Variant ==
  IF entry = "zoom" THEN "zoomSurface"
  ELSE IF TYPE(ZoomArg) = "T_ARRAY" THEN "rotozoomSurfaceXY"
  ELSE "rotozoomSurface"

\* C4 as stated: rotozoom and zoom both fail with CapabilityMissing,
\* without calling SDL_gfx, for a pair or a negative scalar the build does
\* not support, and otherwise call the matching variant exactly once.
C4_Original ==
  (Finished /\ FullRequest) =>
    IF Gated
    THEN outcome = Raise("CapabilityMissing") /\ backend = <<>>
    ELSE Len(backend) = 1 /\ backend[1].fn = Variant

\* C4 amended: rotozoom does so; zoom is not gated, and calls zoomSurface
\* exactly once with (zx, zy), a scalar z as (z, z), whatever the build.
C4_DispatchGating ==
  (Finished /\ FullRequest) =>
    IF entry = "rotozoom" /\ Gated
    THEN outcome = Raise("CapabilityMissing") /\ backend = <<>>
    ELSE /\ Len(backend) = 1
         /\ backend[1].fn = Variant
         /\ backend[1].zx = (IF TYPE(ZoomArg) = "T_ARRAY" THEN ZoomArg.a
                             ELSE NUM2DBL(ZoomArg))
         /\ backend[1].zy = (IF TYPE(ZoomArg) = "T_ARRAY" THEN ZoomArg.b
                             ELSE NUM2DBL(ZoomArg))

\* rotozoom has refused a pair on a build without rotozoomSurfaceXY.
C4_Witness ==
  /\ pc = "raised"
  /\ entry = "rotozoom"
  /\ ~HAVE_ROTOZOOMXY
  /\ argv = <<Fix(90), Ary(2, 3), Qfalse>>
  /\ outcome.err = "CapabilityMissing"

\* A source of the given size, for the transform a predictor predicts.
OfSize(sz) == [w |-> sz.a, h |-> sz.b]

\* C5: the size rotozoom_size returns is the dimensions of the surface
\* rotozoom gives for a source of that size with the same angle and zoom,
\* and the size zoom_size returns those of the surface zoom gives (the
\* backend's size function being any function of the arguments it is
\* handed: the width, the height, the angle and the zoom factors).
C5_SizeAgreement ==
  /\ (Finished /\ entry = "rotozoom_size" /\ Len(argv) = 3) =>
       LET t == rbgm_transform_rotozoom(OfSize(argv[1]),
                                        <<argv[2], argv[3], Qfalse>>, TRUE).out
       IN (t.kind = "surface" /\ outcome.kind = "size") =>
            outcome.dims = t.dims
  /\ (Finished /\ entry = "zoom_size" /\ Len(argv) >= 2) =>
       LET t == rbgm_transform_zoom(OfSize(argv[1]), <<argv[2], Qfalse>>,
                                    TRUE).out
       IN (t.kind = "surface" /\ outcome.kind = "size") =>
            outcome.dims = t.dims

\* C6: rotozoom_size returns nil exactly when rotozoom with the same angle
\* and zoom fails with CapabilityMissing, and fails with InvalidArgument
\* exactly when rotozoom does.
C6_RzsizeMirrorsRotozoom ==
  (Finished /\ entry = "rotozoom_size" /\ Len(argv) = 3) =>
    LET t == rbgm_transform_rotozoom(OfSize(argv[1]),
                                     <<argv[2], argv[3], Qfalse>>, TRUE).out
    IN /\ (outcome.kind = "nil") <=> (t.err = "CapabilityMissing")
       /\ (outcome.err = "InvalidArgument") <=> (t.err = "InvalidArgument")

\* C7: smooth may be left out: zoom with a zoom only and rotozoom with an
\* angle and a zoom only do not fail on the arguments and hand SDL_gfx
\* smooth = 0, and zoom_size with its two arguments returns a size.
C7_SmoothOptional ==
  /\ (Finished /\ entry = "zoom" /\ Len(argv) = 1 /\ IsZoom(argv[1])) =>
       /\ outcome.err # "InvalidArgument"
       /\ Len(backend) = 1
       /\ backend[1].smooth = 0
  /\ (/\ Finished
      /\ entry = "rotozoom"
      /\ Len(argv) = 2
      /\ IsNum(argv[1])
      /\ IsZoom(argv[2])
      /\ ~Gated) =>
       /\ outcome.err # "InvalidArgument"
       /\ Len(backend) = 1
       /\ backend[1].smooth = 0
  /\ (Finished /\ entry = "zoom_size" /\ Len(argv) = 2 /\ IsZoom(argv[2])) =>
       outcome.kind = "size"

\* C8: no step of any call changes the call's source surface: its pixel
\* bytes, width, height, pitch, depth and lock count stay as they were.
C8_NoSourceMutation == [][heap'[surf'] = heap[surf']]_vars

\* A horizontal flip has run to its end and has written its destination.
C8_Witness ==
  /\ pc = "done"
  /\ entry = "flip"
  /\ ncalls = 1
  /\ argv = <<Qtrue, Qfalse>>
  /\ Len(writes) > 0
  /\ heap[surf].h = 2

\* C9: flip writes the destination only while holding its lock; when the
\* lock cannot be taken it fails with LockFailed and writes nothing; and
\* no surface is locked once flip has returned or raised.
C9_LockDiscipline ==
  /\ (entry = "flip" /\ pc = "flip_copy" /\ Len(writes) > 0) =>
       heap[newsurf].locked > 0
  /\ (entry = "flip" /\ Finished /\ lockret # 0) =>
       outcome = Raise("LockFailed") /\ writes = <<>>
  /\ Finished => \A i \in 1..Len(heap) : heap[i].locked = 0

\* C10: every offset flip reads is within the source buffer and within the
\* used bytes of a source row; every offset it writes is within the used
\* bytes of a destination row; no destination byte is written twice; and
\* once the loops are over every used destination byte has been written.
C10_FlipBounds ==
  (entry = "flip" /\ newsurf # 0) =>
    LET s == heap[surf]
        d == heap[newsurf]
        used == s.w * s.BytesPerPixel
    IN /\ \A o \in reads :
            /\ 0 <= o
            /\ o < s.pitch * s.h
            /\ o % s.pitch < used
       /\ \A i \in 1..Len(writes) :
            \E y \in 0..(s.h - 1) :
              y * d.pitch <= writes[i] /\ writes[i] < y * d.pitch + used
       /\ \A i, j \in 1..Len(writes) : i # j => writes[i] # writes[j]
       /\ pc \in {"flip_ret", "done"} =>
            \A y \in 0..(s.h - 1), b \in 0..(used - 1) :
              \E i \in 1..Len(writes) : writes[i] = y * d.pitch + b

\* A flip on both axes of 4-byte pixels from a padded source into an
\* unpadded destination.
C10_Witness ==
  /\ pc = "done"
  /\ entry = "flip"
  /\ argv = <<Qtrue, Qtrue>>
  /\ heap[surf].BytesPerPixel = 4
  /\ heap[surf].w = 2
  /\ heap[surf].pitch > 8
  /\ heap[newsurf].pitch = 8
====
